---- MODULE Spec2Model ----
(***************************************************************************)
(* Model of the multi-thumb slider of packages/core/src/useSlider:         *)
(* the thumb registry, the field value (scalar or array), the commit of a  *)
(* thumb value, the track pointer-down handler and the range resolver.     *)
(*                                                                         *)
(* Numbers are integers.  A JavaScript undefined is the value `undefined'  *)
(* below; array positions are 0-based as in the source, kept in a TLA+     *)
(* sequence whose element k+1 is the array's element k.                    *)
(***************************************************************************)
EXTENDS Integers, Sequences, FiniteSets, TLC

\* ---------------------------------------------------------------- bounds
\* number of thumb registrations over the life of the slider
MaxThumbs == 3

\* ------------------------------------------------------------ JS values
\* the JavaScript value undefined (also stands for an array hole)
undefined == -1000

isNullOrUndefined(v) == v = undefined

\* an orientation or direction prop that is not passed
unset == "undefined"

\* a ?? that never falls back
NullishWithoutFallback(a, b) == a

\* a ?? b
Nullish(a, b) == IF isNullOrUndefined(a) THEN b ELSE a

\* a || b for a number-or-undefined a: 0 and undefined are falsy
OrDefault(a, b) == IF a = undefined \/ a = 0 THEN b ELSE a

Abs(n) == IF n < 0 THEN -n ELSE n

\* Math.round of the rational n / d (d # 0): floor(n/d + 1/2)
MathRound(n, d) ==
  LET nn == IF d < 0 THEN -n ELSE n
      dd == IF d < 0 THEN -d ELSE d
  IN  (2 * nn + dd) \div (2 * dd)

\* toNearestMultipleOf applied to the rational n / d
toNearestMultipleOf(n, d, multiple) == MathRound(n, d * multiple) * multiple

\* ------------------------------------------------------------ the field
\* Arrayable<number> | undefined held by the field service.  An array keeps
\* its elements in items and the own property "-1" (set by an assignment
\* arr[-1] = v) in neg1.
ScalarValue(v) == [isArray |-> FALSE, scalar |-> v, items |-> <<>>, neg1 |-> undefined]

ArrayValue(items, neg1) == [isArray |-> TRUE, scalar |-> undefined, items |-> items, neg1 |-> neg1]

\* normalizeArrayable: an array as it is, anything else wrapped in an array
normalizeArrayable(fv) == IF fv.isArray THEN fv.items ELSE <<fv.scalar>>

\* Array.prototype.filter(v => !isNullOrUndefined(v)): a fresh dense array
FilterDefined(items) == SelectSeq(items, LAMBDA v : ~isNullOrUndefined(v))

\* arr[idx] = value on a JS array: replaces, or extends leaving holes; a
\* negative idx leaves the elements alone
ArrayAssign(items, idx, value) ==
  IF idx < 0 THEN items
  ELSE IF idx < Len(items) THEN [items EXCEPT ![idx + 1] = value]
  ELSE items \o [k \in 1..(idx - Len(items)) |-> undefined] \o <<value>>

\* ---------------------------------------------------------------- inputs
\* the track's bounding rectangle
Rect == [left |-> 0, top |-> 0, width |-> 20, height |-> 20]

\* pointer coordinates of a mousedown on the track
Coordinates ==
  { [x |-> 9, y |-> 6], [x |-> 20, y |-> 0] }

\* values a thumb widget passes to its handle's setThumbValue
CommitValues == {1, 120}

\* the props the slider is created with
PropsA == [min |-> undefined, max |-> 10, step |-> 5, orientation |-> unset, dir |-> unset]

\* the props and props.modelValue of the sliders that are modelled
Sliders ==
  { <<PropsA, ScalarValue(undefined)>>, <<PropsA, ArrayValue(<<2, 8>>, undefined)>> }

\* props of sliders whose geometry is examined: bounds left out, zero,
\* negative and positive; step left out, zero, negative and positive; every
\* orientation and direction
GeomProps ==
  [min : {undefined, 0, -10}, max : {undefined, 0, 10}, step : {undefined, 0, -2, 3},
   orientation : {unset, "horizontal", "vertical"}, dir : {unset, "ltr", "rtl"}]

\* props.modelValue of those sliders
GeomValues == { ScalarValue(undefined), ArrayValue(<<2, 8>>, undefined) }

\* pointer coordinates over the track rectangle, its edges included
GeomCoordinates == [x : {0, 13, 20}, y : {0, 13, 20}]

\* props of sliders whose track is pressed: a step that divides max - min and
\* one that does not
TrackProps ==
  [min : {undefined, -10}, max : {10}, step : {5, 6}, orientation : {unset}, dir : {unset}]

\* pointer coordinates strictly inside the track rectangle
TrackCoordinates == { [x |-> 9, y |-> 6], [x |-> 19, y |-> 1] }

\* the directions a locale can have
LocaleDirections == {"ltr", "rtl"}

\* props.disabled and props.readonly
Mutability == { <<FALSE, FALSE>>, <<TRUE, FALSE>>, <<FALSE, TRUE>> }

\* the id a thumb brings in its ThumbRegistration: its own, or the first thumb's
IdsFor(obj) == IF obj = 2 THEN {1, 2} ELSE {obj}

\* ----------------------------------------------------------------- state
VARIABLES
  props,        \* min, max, step, orientation, dir
  direction,    \* the locale's direction, from useLocale()
  disabled,     \* props.disabled
  readonly,     \* props.readonly
  trackRef,     \* TRUE when the track element is captured
  thumbs,       \* the registry: sequence of ThumbRegistration [obj, id]
  handles,      \* every ThumbRegistration that was ever registered
  mounted,      \* those whose onBeforeUnmount hook has not run
  fieldValue,   \* the field's value
  touched,      \* the field's touched flag
  last          \* the last handler that ran, its inputs and its calls

vars == <<props, direction, disabled, readonly, trackRef, thumbs, handles, mounted, fieldValue, touched, last>>

NoOp == [op |-> "none", idx |-> 0, value |-> undefined, effects |-> <<>>]

\* ------------------------------------------------------------ the slider
isDisabled == disabled

isReadonly == readonly

\* a mutability test that forgets props.readonly
isMutableIgnoringReadonly == ~isDisabled

isMutable == ~isDisabled /\ ~isReadonly

\* getThumbValue(idx) on a field value fv
ThumbValueIn(fv, idx) ==
  IF fv.isArray
    THEN IF idx >= 0 /\ idx < Len(fv.items) THEN fv.items[idx + 1]
         ELSE IF idx = -1 THEN fv.neg1
         ELSE undefined
    ELSE IF idx = 0 THEN fv.scalar ELSE undefined

getThumbValue(idx) == ThumbValueIn(fieldValue, idx)

getSliderRange == [min |-> OrDefault(props.min, 0), max |-> OrDefault(props.max, 100)]

\* Array.prototype.indexOf(thumbCtx): position of the object, or -1
indexOf(registry, ctx) ==
  IF \E k \in 1..Len(registry) : registry[k] = ctx
    THEN (CHOOSE k \in 1..Len(registry) :
            registry[k] = ctx /\ \A j \in 1..(k - 1) : registry[j] # ctx) - 1
    ELSE -1

\* Array.prototype.findIndex(t => t.id === id): first position with the id, or -1
findIndex(registry, id) ==
  IF \E k \in 1..Len(registry) : registry[k].id = id
    THEN (CHOOSE k \in 1..Len(registry) :
            registry[k].id = id /\ \A j \in 1..(k - 1) : registry[j].id # id) - 1
    ELSE -1

getThumbIndex(ctx) == findIndex(thumbs, ctx.id)

\* a range resolver that reads the neighbours the wrong way round
getThumbRangeSwapped(thumbCtx) ==
  LET absoluteMin == getSliderRange.min
      absoluteMax == getSliderRange.max
      idx == indexOf(thumbs, thumbCtx)
      nextThumb == getThumbValue(idx + 1)
      prevThumb == getThumbValue(idx - 1)
  IN  [min |-> Nullish(nextThumb, absoluteMin), max |-> Nullish(prevThumb, absoluteMax),
       absoluteMin |-> absoluteMin, absoluteMax |-> absoluteMax]

getThumbRange(thumbCtx) ==
  LET absoluteMin == getSliderRange.min
      absoluteMax == getSliderRange.max
      idx == indexOf(thumbs, thumbCtx)
      nextThumb == getThumbValue(idx + 1)
      prevThumb == getThumbValue(idx - 1)
  IN  [min |-> Nullish(prevThumb, absoluteMin), max |-> Nullish(nextThumb, absoluteMax),
       absoluteMin |-> absoluteMin, absoluteMax |-> absoluteMax]

\* the handle's getThumbValue
RegGetThumbValue(ctx) == Nullish(getThumbValue(getThumbIndex(ctx)), getThumbRange(ctx).absoluteMin)

\* a mapping that flips once for rtl and once more for vertical
ValueInRectFlippedTwice(p, pos) ==
  LET orientation == IF p.orientation = unset THEN "horizontal" ELSE p.orientation
      horizontal == orientation = "horizontal"
      size == IF horizontal THEN Rect.width ELSE Rect.height
      offset == IF horizontal THEN pos.x - Rect.left ELSE pos.y - Rect.top
      flip == (p.dir = "rtl") # (orientation = "vertical")
      part == IF flip THEN size - offset ELSE offset
      min == OrDefault(p.min, 0)
      max == OrDefault(p.max, 100)
  IN  toNearestMultipleOf(part * (max - min) + min * size, size, OrDefault(p.step, 1))

\* the part of getValueForPagePosition after its guard, for the props p: the
\* value at the pointer's place in the track rectangle, rounded to the step
ValueInRect(p, pos) ==
  LET orientation == IF p.orientation = unset THEN "horizontal" ELSE p.orientation
      horizontal == orientation = "horizontal"
      size == IF horizontal THEN Rect.width ELSE Rect.height
      offset == IF horizontal THEN pos.x - Rect.left ELSE pos.y - Rect.top
      flip == p.dir = "rtl" \/ orientation = "vertical"
      \* percent = part / size
      part == IF flip THEN size - offset ELSE offset
      min == OrDefault(p.min, 0)
      max == OrDefault(p.max, 100)
      \* value = (part * (max - min) + min * size) / size
  IN  toNearestMultipleOf(part * (max - min) + min * size, size, OrDefault(p.step, 1))

\* a mapping that reads the rectangle without looking for the track element
getValueForPagePositionUnguarded(pos) == ValueInRect(props, pos)

getValueForPagePosition(pos) == IF ~trackRef THEN 0 ELSE ValueInRect(props, pos)

getSliderStep == OrDefault(props.step, 1)

\* the handle's getInlineDirection
getInlineDirection == IF props.dir = unset THEN direction ELSE props.dir

\* a commit whose scalar path is taken for an empty registry only
setThumbValueOffByOne(idx, value, keepNeg1) ==
  IF ~isMutable THEN [fieldValue |-> fieldValue, effects |-> <<>>]
  ELSE IF Len(thumbs) < 1
    THEN [fieldValue |-> ScalarValue(value), effects |-> <<"setValue", "updateValidity">>]
  ELSE
    LET filtered == FilterDefined(normalizeArrayable(fieldValue))
        nextValue == ArrayAssign(filtered, idx, value)
        neg1 == IF idx = -1 /\ keepNeg1 THEN value ELSE undefined
    IN  [fieldValue |-> ArrayValue(nextValue, neg1), effects |-> <<"setValue", "updateValidity">>]

\* setThumbValue(idx, value): the field value it leaves and the calls it makes.
\* keepNeg1 says whether the field service's setValue keeps an own property
\* "-1" of the array it is given.
setThumbValue(idx, value, keepNeg1) ==
  IF ~isMutable THEN [fieldValue |-> fieldValue, effects |-> <<>>]
  ELSE IF Len(thumbs) <= 1
    THEN [fieldValue |-> ScalarValue(value), effects |-> <<"setValue", "updateValidity">>]
  ELSE
    LET filtered == FilterDefined(normalizeArrayable(fieldValue))
        nextValue == ArrayAssign(filtered, idx, value)
        neg1 == IF idx = -1 /\ keepNeg1 THEN value ELSE undefined
    IN  [fieldValue |-> ArrayValue(nextValue, neg1), effects |-> <<"setValue", "updateValidity">>]

\* a reduce in which a later thumb at the same distance replaces the candidate
RECURSIVE ClosestFromLastWins(_, _, _)
ClosestFromLastWins(k, candidate, targetValue) ==
  IF k >= Len(thumbs) THEN candidate
  ELSE
    LET curr == thumbs[k + 1]
        range == getThumbRange(curr)
        currentThumbValue == getThumbValue(k)
        diff == Abs(currentThumbValue - targetValue)
        next ==
          IF targetValue < range.min \/ targetValue > range.max THEN candidate
          ELSE IF isNullOrUndefined(currentThumbValue) THEN candidate
          ELSE IF ~candidate.finite \/ diff <= candidate.diff
            THEN [idx |-> k, diff |-> diff, finite |-> TRUE]
          ELSE candidate
    IN  ClosestFromLastWins(k + 1, next, targetValue)

\* the reduce of trackProps.onMousedown over thumbs[k..]: candidate is
\* [idx, diff, finite], finite = FALSE standing for diff = Infinity
RECURSIVE ClosestFrom(_, _, _)
ClosestFrom(k, candidate, targetValue) ==
  IF k >= Len(thumbs) THEN candidate
  ELSE
    LET curr == thumbs[k + 1]
        range == getThumbRange(curr)
        currentThumbValue == getThumbValue(k)
        diff == Abs(currentThumbValue - targetValue)
        next ==
          IF targetValue < range.min \/ targetValue > range.max THEN candidate
          ELSE IF isNullOrUndefined(currentThumbValue) THEN candidate
          ELSE IF ~candidate.finite \/ diff < candidate.diff
            THEN [idx |-> k, diff |-> diff, finite |-> TRUE]
          ELSE candidate
    IN  ClosestFrom(k + 1, next, targetValue)

Closest(targetValue) == ClosestFrom(0, [idx |-> 0, diff |-> 0, finite |-> FALSE], targetValue)

\* removeFirst(array, predicate) with the predicate reg => reg.id === id
removeFirst(registry, id) ==
  LET i == findIndex(registry, id)
  IN  IF i = -1 THEN registry
      ELSE SubSeq(registry, 1, i) \o SubSeq(registry, i + 2, Len(registry))

\* a hook that drops every entry carrying the id
onBeforeUnmountAll(id) == SelectSeq(thumbs, LAMBDA reg : reg.id # id)

\* the body of the onBeforeUnmount hook registered for the id: the registry it leaves
onBeforeUnmount(id) == removeFirst(thumbs, id)

\* --------------------------------------------------------------- actions
Init ==
  /\ \E slider \in Sliders : props = slider[1] /\ fieldValue = slider[2]
  /\ \E m \in Mutability : disabled = m[1] /\ readonly = m[2]
  /\ direction = "ltr"
  /\ trackRef = FALSE
  /\ thumbs = <<>>
  /\ handles = {}
  /\ mounted = {}
  /\ touched = FALSE
  /\ last = NoOp

\* withRefCapture: the track element is mounted
CaptureTrackRef ==
  /\ ~trackRef
  /\ trackRef' = TRUE
  /\ last' = [NoOp EXCEPT !.op = "captureTrackRef"]
  /\ UNCHANGED <<props, direction, disabled, readonly, thumbs, handles, mounted, fieldValue, touched>>

\* a registration that puts the thumb at the front of the registry
RegisterAtFront(ctx) ==
  /\ thumbs' = <<ctx>> \o thumbs
  /\ handles' = handles \cup {ctx}
  /\ mounted' = mounted \cup {ctx}
  /\ last' = [NoOp EXCEPT !.op = "register", !.idx = Len(thumbs)]
  /\ UNCHANGED <<props, direction, disabled, readonly, trackRef, fieldValue, touched>>

\* useSliderThumbRegistration(ctx)
Register(ctx) ==
  /\ thumbs' = Append(thumbs, ctx)
  /\ handles' = handles \cup {ctx}
  /\ mounted' = mounted \cup {ctx}
  /\ last' = [NoOp EXCEPT !.op = "register", !.idx = Len(thumbs)]
  /\ UNCHANGED <<props, direction, disabled, readonly, trackRef, fieldValue, touched>>

RegisterThumb ==
  /\ Cardinality(handles) < MaxThumbs
  /\ LET obj == Cardinality(handles) + 1
     IN  \E id \in IdsFor(obj) : Register([obj |-> obj, id |-> id])

\* the onBeforeUnmount hook of the thumb that registered ctx
Unmount(ctx) ==
  /\ ctx \in mounted
  /\ thumbs' = onBeforeUnmount(ctx.id)
  /\ mounted' = mounted \ {ctx}
  /\ last' = [NoOp EXCEPT !.op = "unmount", !.idx = findIndex(thumbs, ctx.id)]
  /\ UNCHANGED <<props, direction, disabled, readonly, trackRef, handles, fieldValue, touched>>

\* a handle that rounds the value to the slider's step before committing it
RegSetThumbValueRounded(ctx, value) ==
  \E keepNeg1 \in (IF getThumbIndex(ctx) = -1 THEN BOOLEAN ELSE {FALSE}) :
    LET idx == getThumbIndex(ctx)
        res == setThumbValue(idx, toNearestMultipleOf(value, 1, getSliderStep), keepNeg1)
    IN  /\ fieldValue' = res.fieldValue
        /\ last' = [op |-> "setThumbValue", idx |-> idx, value |-> value,
                    effects |-> res.effects]
        /\ UNCHANGED <<props, direction, disabled, readonly, trackRef, thumbs, handles, mounted, touched>>

\* reg.setThumbValue(value) of the handle given for ctx
RegSetThumbValue(ctx, value) ==
  \E keepNeg1 \in (IF getThumbIndex(ctx) = -1 THEN BOOLEAN ELSE {FALSE}) :
    LET idx == getThumbIndex(ctx)
        res == setThumbValue(idx, value, keepNeg1)
    IN  /\ fieldValue' = res.fieldValue
        /\ last' = [op |-> "setThumbValue", idx |-> idx, value |-> value,
                    effects |-> res.effects]
        /\ UNCHANGED <<props, direction, disabled, readonly, trackRef, thumbs, handles, mounted, touched>>

\* a handler that marks the field touched before it commits
OnMousedownTouchesFirst(pos) ==
  IF ~trackRef \/ ~isMutable
    THEN /\ last' = [NoOp EXCEPT !.op = "onMousedown"]
         /\ UNCHANGED <<props, direction, disabled, readonly, trackRef, thumbs, handles, mounted,
                        fieldValue, touched>>
    ELSE
      LET targetValue == getValueForPagePosition(pos)
          closest == Closest(targetValue)
          res == setThumbValue(closest.idx, targetValue, FALSE)
      IN  /\ fieldValue' = res.fieldValue
          /\ touched' = TRUE
          /\ last' = [op |-> "onMousedown", idx |-> closest.idx,
                      value |-> targetValue, effects |-> <<"setTouched">> \o res.effects]
          /\ UNCHANGED <<props, direction, disabled, readonly, trackRef, thumbs, handles, mounted>>

\* trackProps.onMousedown(e)
OnMousedown(pos) ==
  IF ~trackRef \/ ~isMutable
    THEN /\ last' = [NoOp EXCEPT !.op = "onMousedown"]
         /\ UNCHANGED <<props, direction, disabled, readonly, trackRef, thumbs, handles, mounted,
                        fieldValue, touched>>
    ELSE
      LET targetValue == getValueForPagePosition(pos)
          closest == Closest(targetValue)
          res == setThumbValue(closest.idx, targetValue, FALSE)
      IN  /\ fieldValue' = res.fieldValue
          /\ touched' = TRUE
          /\ last' = [op |-> "onMousedown", idx |-> closest.idx,
                      value |-> targetValue, effects |-> res.effects \o <<"setTouched">>]
          /\ UNCHANGED <<props, direction, disabled, readonly, trackRef, thumbs, handles, mounted>>

\* a mounted thumb is torn down
UnmountThumb == \E ctx \in mounted : Unmount(ctx)

\* a thumb widget, mounted or torn down, commits through its handle
ThumbCommit == \E ctx \in handles, value \in CommitValues : RegSetThumbValue(ctx, value)

\* the user presses the pointer on the track
TrackPointerDown == \E pos \in Coordinates : OnMousedown(pos)

Next ==
  \/ CaptureTrackRef
  \/ RegisterThumb
  \/ UnmountThumb
  \/ ThumbCommit
  \/ TrackPointerDown

Spec == Init /\ [][Next]_vars

\* deregister(identity) asked for any identity, registered or not
Deregister(id) ==
  /\ thumbs' = onBeforeUnmount(id)
  /\ last' = [NoOp EXCEPT !.op = "deregister", !.idx = findIndex(thumbs, id)]
  /\ UNCHANGED <<props, direction, disabled, readonly, trackRef, handles, mounted, fieldValue, touched>>

DeregisterAny == \E id \in 1..MaxThumbs : Deregister(id)

\* the registry alone: registrations and deregistrations in any order
NextDereg ==
  \/ RegisterThumb
  \/ UnmountThumb
  \/ DeregisterAny

SpecDereg == Init /\ [][NextDereg]_vars

\* a slider of GeomProps after construction
InitGeom ==
  /\ props \in GeomProps
  /\ fieldValue \in GeomValues
  /\ direction \in LocaleDirections
  /\ disabled = FALSE
  /\ readonly = FALSE
  /\ trackRef = FALSE
  /\ thumbs = <<>>
  /\ handles = {}
  /\ mounted = {}
  /\ touched = FALSE
  /\ last = NoOp

\* getValueForPagePosition(pos) is called and its result kept
ReadPagePosition(pos) ==
  /\ last' = [NoOp EXCEPT !.op = "getValueForPagePosition", !.value = getValueForPagePosition(pos)]
  /\ UNCHANGED <<props, direction, disabled, readonly, trackRef, thumbs, handles, mounted, fieldValue, touched>>

ReadAnyPagePosition == \E pos \in GeomCoordinates : ReadPagePosition(pos)

\* a thumb calls getSliderStep()
ReadSliderStep ==
  /\ last' = [NoOp EXCEPT !.op = "getSliderStep", !.value = getSliderStep]
  /\ UNCHANGED <<props, direction, disabled, readonly, trackRef, thumbs, handles, mounted, fieldValue, touched>>

\* a thumb calls getSliderRange()
ReadSliderRange ==
  /\ last' = [NoOp EXCEPT !.op = "getSliderRange", !.value = getSliderRange]
  /\ UNCHANGED <<props, direction, disabled, readonly, trackRef, thumbs, handles, mounted, fieldValue, touched>>

\* a thumb calls getThumbRange() of its handle
ReadThumbRange(ctx) ==
  /\ last' = [NoOp EXCEPT !.op = "getThumbRange", !.idx = indexOf(thumbs, ctx),
                          !.value = getThumbRange(ctx)]
  /\ UNCHANGED <<props, direction, disabled, readonly, trackRef, thumbs, handles, mounted, fieldValue, touched>>

ReadAnyThumbRange == \E ctx \in handles : ReadThumbRange(ctx)

\* a thumb calls getInlineDirection()
ReadInlineDirection ==
  /\ last' = [NoOp EXCEPT !.op = "getInlineDirection", !.value = getInlineDirection]
  /\ UNCHANGED <<props, direction, disabled, readonly, trackRef, thumbs, handles, mounted,
                 fieldValue, touched>>

\* the slider's readings: what the mapping, the step and the ranges return
NextGeom ==
  \/ CaptureTrackRef
  \/ RegisterThumb
  \/ ReadAnyPagePosition
  \/ ReadSliderStep
  \/ ReadSliderRange
  \/ ReadAnyThumbRange
  \/ ReadInlineDirection

SpecGeom == InitGeom /\ [][NextGeom]_vars

\* a mutable slider of TrackProps after construction
InitTrack ==
  /\ props \in TrackProps
  /\ fieldValue \in GeomValues
  /\ direction = "ltr"
  /\ disabled = FALSE
  /\ readonly = FALSE
  /\ trackRef = FALSE
  /\ thumbs = <<>>
  /\ handles = {}
  /\ mounted = {}
  /\ touched = FALSE
  /\ last = NoOp

\* the user presses the pointer inside the track
TrackPress == \E pos \in TrackCoordinates : OnMousedown(pos)

\* thumbs register and the track is pressed, nothing else
NextTrack ==
  \/ CaptureTrackRef
  \/ RegisterThumb
  \/ TrackPress

SpecTrack == InitTrack /\ [][NextTrack]_vars

\* ---------------------------------------------------------------- claims
\* positions of the registry, 0-based
Indices == 0..(Len(thumbs) - 1)

\* positions of a field array that any commit of the model can reach
Positions == 0..(MaxThumbs + 1)

Committed == <<"setValue", "updateValidity">>

\* the thumbs of the registry carry pairwise different ids
DistinctIds == \A i, j \in Indices : thumbs[i + 1].id = thumbs[j + 1].id => i = j

\* the target value lies in the thumb's current range
Admits(ctx, t) == getThumbRange(ctx).min <= t /\ t <= getThumbRange(ctx).max

\* C1: on a mutable slider with a measured track whose field is a sequence
\* with one position per registered thumb, a track pointer-down mapping to t
\* writes t to a thumb whose range contains t and that is at least as close to
\* t as every other such thumb with a value.
C1_NearestAdmissibleThumb ==
  [][\A pos \in Coordinates :
       (trackRef /\ ~disabled /\ ~readonly /\ Len(thumbs) >= 2 /\ DistinctIds
          /\ fieldValue.isArray /\ Len(fieldValue.items) = Len(thumbs)
          /\ OnMousedown(pos)) =>
         LET t == getValueForPagePosition(pos)
             w == last'.idx
         IN  /\ w \in Indices
             /\ Admits(thumbs[w + 1], t)
             /\ \A j \in Indices :
                  (Admits(thumbs[j + 1], t) /\ ~isNullOrUndefined(getThumbValue(j))) =>
                    /\ ~isNullOrUndefined(getThumbValue(w))
                    /\ Abs(getThumbValue(w) - t) <= Abs(getThumbValue(j) - t)
             /\ ThumbValueIn(fieldValue', w) = t]_vars

\* C2: a commit to the index of a registered thumb, on a mutable slider with
\* two or more thumbs, leaves the value read at every other index as it was.
C2_CommitChangesOnlyItsIndex ==
  [][\A ctx \in handles, value \in CommitValues :
       (~disabled /\ ~readonly /\ Len(thumbs) >= 2 /\ getThumbIndex(ctx) >= 0
          /\ RegSetThumbValue(ctx, value)) =>
         \A j \in Positions :
           j # getThumbIndex(ctx) => ThumbValueIn(fieldValue', j) = getThumbValue(j)]_vars

\* a field that is a sequence has one position per registered thumb
LengthMatchesRegistry == fieldValue.isArray => Len(fieldValue.items) = Len(thumbs)

\* C3: once the field is a sequence with one position per registered thumb,
\* every registration, deregistration, commit and track pointer-down leaves a
\* field that, if a sequence, has one position per registered thumb.
C3_SequenceLengthIsThumbCount ==
  [][(fieldValue.isArray /\ LengthMatchesRegistry /\ DistinctIds) => LengthMatchesRegistry']_vars

\* the range of the thumb at index i is given by the values of its neighbours
\* in the registry, the absolute bound standing in where there is no neighbour
\* (or where the neighbour has no value yet)
RangeFollowsNeighbours(i) ==
  LET range == getThumbRange(thumbs[i + 1])
  IN  /\ range.min = (IF i > 0 THEN Nullish(getThumbValue(i - 1), range.absoluteMin)
                      ELSE range.absoluteMin)
      /\ range.max = (IF i < Len(thumbs) - 1 THEN Nullish(getThumbValue(i + 1), range.absoluteMax)
                      ELSE range.absoluteMax)

\* C4: in every reachable state the range of every registered thumb has
\* min = the value of the preceding thumb (absoluteMin for the first) and
\* max = the value of the following thumb (absoluteMax for the last).
C4_RangeIsNeighbourValues == \A i \in Indices : RangeFollowsNeighbours(i)

\* every registered thumb has a value and the values do not decrease by index
ValuesNonDecreasing ==
  /\ \A i \in Indices : ~isNullOrUndefined(getThumbValue(i))
  /\ \A i, j \in Indices : i <= j => getThumbValue(i) <= getThumbValue(j)

RangeContainsValue(i) ==
  LET range == getThumbRange(thumbs[i + 1])
  IN  /\ range.absoluteMin <= range.min
      /\ range.min <= getThumbValue(i)
      /\ getThumbValue(i) <= range.max
      /\ range.max <= range.absoluteMax

HoldsExactlyThumbValues ==
  /\ Len(thumbs) >= 1
  /\ IF fieldValue.isArray
       THEN Len(fieldValue.items) = Len(thumbs) /\ isNullOrUndefined(fieldValue.neg1)
       ELSE Len(thumbs) = 1

ValuesWithinSliderRange ==
  \A i \in Indices :
    getSliderRange.min <= getThumbValue(i) /\ getThumbValue(i) <= getSliderRange.max

C6_NotMutableIsNoOp ==
  [][(\/ last'.op = "onMousedown" /\ (disabled \/ readonly \/ ~trackRef)
      \/ last'.op = "setThumbValue" /\ (disabled \/ readonly)) =>
       fieldValue' = fieldValue /\ touched' = touched /\ last'.effects = <<>>]_vars

C6_Witness ==
  /\ readonly /\ ~disabled /\ trackRef
  /\ Len(thumbs) >= 2
  /\ last.op = "setThumbValue" /\ last.idx = 1 /\ last.effects = <<>>

\* C7: on a mutable slider whose registry holds at most one thumb, a commit
\* (through a handle or by a track pointer-down) leaves the field equal to the
\* committed scalar, never a sequence.
C7_SingleThumbCommitIsScalar ==
  [][(/\ \/ last'.op = "setThumbValue"
         \/ last'.op = "onMousedown" /\ trackRef
      /\ ~disabled /\ ~readonly /\ Len(thumbs) <= 1) =>
       fieldValue' = ScalarValue(last'.value)]_vars

C7_Witness ==
  /\ Len(thumbs) = 1
  /\ last.op = "setThumbValue" /\ last.idx = 0 /\ last.effects = Committed
  /\ fieldValue = ScalarValue(last.value)

\* the registry without its entry at 0-based position i
WithoutPosition(registry, i) ==
  [k \in 1..(Len(registry) - 1) |-> IF k <= i THEN registry[k] ELSE registry[k + 1]]

\* the first position of the registry whose entry carries the id
IsFirstMatch(i, id) ==
  /\ i \in Indices
  /\ thumbs[i + 1].id = id
  /\ \A j \in Indices : j < i => thumbs[j + 1].id # id

\* C8: a deregistration by identity removes exactly the first entry carrying
\* the identity and keeps the order of the others; when no entry carries it
\* the registry is unchanged.
C8_DeregisterRemovesFirstMatch ==
  [][\A id \in 1..MaxThumbs :
       ((\E ctx \in mounted : ctx.id = id /\ Unmount(ctx)) \/ Deregister(id)) =>
         /\ \A i \in Indices : IsFirstMatch(i, id) => thumbs' = WithoutPosition(thumbs, i)
         /\ (\A i \in Indices : thumbs[i + 1].id # id) => thumbs' = thumbs]_vars

C8_Witness ==
  /\ last.op = "unmount" /\ last.idx = 1
  /\ Len(thumbs) = 2
  /\ thumbs[1].obj = 1 /\ thumbs[2].obj = 3

\* C9: the getIndex of every handle is the position of its thumb in the
\* current registry, and -1 once the thumb is no longer registered.
C9_GetIndexIsRegistryPosition ==
  \A ctx \in handles : getThumbIndex(ctx) = indexOf(thumbs, ctx)

\* C10: after a thumb is deregistered from a registry of distinct ids whose
\* thumbs have non-decreasing values in a field sequence of the registry's
\* length, the range of every
\* remaining thumb is given by its new neighbours, the absolute bound standing
\* in on a side without neighbour.
C10_RangesAfterDeregistration ==
  [][\A ctx \in mounted :
       (fieldValue.isArray /\ LengthMatchesRegistry /\ ValuesNonDecreasing /\ DistinctIds
          /\ Unmount(ctx)) =>
         (\A i \in Indices : RangeFollowsNeighbours(i))']_vars

\* the configured value of a bound, the default standing in only when the
\* bound is not configured
Configured(bound, default) == IF bound = undefined THEN default ELSE bound

\* the mapping of the slider's props with the step replaced
ValueWithStep(step, pos) ==
  IF ~trackRef THEN 0 ELSE ValueInRect([props EXCEPT !.step = step], pos)

\* C11: when the configured step is zero or negative, getSliderStep returns 1
\* and the position-to-value mapping returns, at every coordinate, what it
\* returns for a step of 1.
C11_NonPositiveStepIsOne ==
  (props.step # undefined /\ props.step <= 0) =>
    /\ getSliderStep = 1
    /\ \A pos \in GeomCoordinates : getValueForPagePosition(pos) = ValueWithStep(1, pos)

\* C12: getSliderRange and the absoluteMin and absoluteMax of every thumb's
\* range equal the configured bounds, 0 and 100 standing in only for a bound
\* that is not configured, whatever the thumbs' values.
C12_AbsoluteBoundsAreConfigured ==
  LET min == Configured(props.min, 0)
      max == Configured(props.max, 100)
  IN  /\ getSliderRange = [min |-> min, max |-> max]
      /\ \A ctx \in handles :
           getThumbRange(ctx).absoluteMin = min /\ getThumbRange(ctx).absoluteMax = max

\* C13: the position-to-value mapping does not decrease as x grows on a
\* horizontal slider that is not rtl, does not increase as x grows on a
\* horizontal rtl slider, and does not increase as y grows on every vertical
\* slider, rtl included.
C13_MappingIsMonotonic ==
  LET vertical == props.orientation = "vertical"
      rtl == props.dir = "rtl"
  IN  \A p, q \in GeomCoordinates :
        /\ (~vertical /\ ~rtl /\ p.x <= q.x) =>
             getValueForPagePosition(p) <= getValueForPagePosition(q)
        /\ (~vertical /\ rtl /\ p.x <= q.x) =>
             getValueForPagePosition(p) >= getValueForPagePosition(q)
        /\ (vertical /\ p.y <= q.y) =>
             getValueForPagePosition(p) >= getValueForPagePosition(q)

\* a measured vertical rtl slider was asked for the value at the top edge,
\* which is greater than the value at the bottom edge
C13_Witness ==
  /\ trackRef
  /\ props.orientation = "vertical" /\ props.dir = "rtl"
  /\ last.op = "getValueForPagePosition"
  /\ last.value = getValueForPagePosition([x |-> 0, y |-> 0])
  /\ last.value > getValueForPagePosition([x |-> 0, y |-> 20])

\* C14: while the track element is not captured, the position-to-value
\* mapping returns 0 at every coordinate, whatever the props.
C14_UnmeasuredTrackMapsToZero ==
  ~trackRef => \A pos \in GeomCoordinates : getValueForPagePosition(pos) = 0

\* the mapping was asked before the track was captured and returned 0 on a
\* slider whose rectangle has no coordinate that maps to 0
C14_Witness ==
  /\ ~trackRef
  /\ last.op = "getValueForPagePosition" /\ last.value = 0
  /\ \A pos \in GeomCoordinates : ValueInRect(props, pos) # 0

\* C15: in every reachable state the range of every thumb, registered or
\* not, has a min and a max that are numbers, and a side whose neighbouring
\* value is unset is the absolute bound of that side.
C15_ThumbRangeIsResolved ==
  \A ctx \in handles :
    LET range == getThumbRange(ctx)
        idx == indexOf(thumbs, ctx)
    IN  /\ ~isNullOrUndefined(range.min)
        /\ ~isNullOrUndefined(range.max)
        /\ isNullOrUndefined(getThumbValue(idx - 1)) => range.min = getSliderRange.min
        /\ isNullOrUndefined(getThumbValue(idx + 1)) => range.max = getSliderRange.max

\* a field sequence with an unset position before a registered thumb and a
\* value after it: the thumb's range runs from absoluteMin to that value
C15_Witness ==
  /\ fieldValue.isArray
  /\ \E i \in Indices :
       /\ i >= 1
       /\ isNullOrUndefined(getThumbValue(i - 1))
       /\ ~isNullOrUndefined(getThumbValue(i + 1))
       /\ getThumbRange(thumbs[i + 1]).min = getSliderRange.min
       /\ getThumbRange(thumbs[i + 1]).max = getThumbValue(i + 1)

\* the registered thumbs that have a value and whose range contains t
Admissible(t) ==
  {j \in Indices : Admits(thumbs[j + 1], t) /\ ~isNullOrUndefined(getThumbValue(j))}

\* those of them that are nearest to t
Nearest(t) ==
  {j \in Admissible(t) :
     \A k \in Admissible(t) : Abs(getThumbValue(j) - t) <= Abs(getThumbValue(k) - t)}

\* C16: when a track pointer-down on a mutable, measured slider maps to a
\* target that two or more admissible thumbs are nearest to, at the same
\* distance, the target is written to the one of them with the lowest
\* registry index.
C16_TieGoesToLowestIndex ==
  [][(/\ last'.op = "onMousedown" /\ trackRef /\ ~disabled /\ ~readonly
      /\ Cardinality(Nearest(last'.value)) >= 2) =>
       /\ last'.idx \in Nearest(last'.value)
       /\ \A j \in Nearest(last'.value) : last'.idx <= j
       /\ ThumbValueIn(fieldValue', last'.idx) = last'.value]_vars

\* two thumbs at 2 and 8 and a pointer-down that mapped to 5: the thumb at
\* index 0 was moved
C16_Witness ==
  /\ Len(thumbs) = 2
  /\ last.op = "onMousedown" /\ last.idx = 0 /\ last.value = 5
  /\ last.effects = Committed \o <<"setTouched">>
  /\ fieldValue.isArray /\ fieldValue.items = <<5, 8>>

\* C17: a registration leaves every thumb that was in the registry at the
\* position it had and puts the new thumb after them, at the position equal to
\* the number of thumbs the registry held, whatever the field's values.
C17_RegisterAppends ==
  [][last'.op = "register" =>
       /\ Len(thumbs') = Len(thumbs) + 1
       /\ \A ctx \in handles :
            indexOf(thumbs, ctx) >= 0 => indexOf(thumbs', ctx) = indexOf(thumbs, ctx)
       /\ \A ctx \in handles' \ handles : indexOf(thumbs', ctx) = Len(thumbs)]_vars

\* a third thumb has just registered behind two whose values are out of order
C17_Witness ==
  /\ last.op = "register" /\ last.idx = 2
  /\ Len(thumbs) = 3 /\ thumbs[3].obj = 3
  /\ fieldValue.isArray /\ fieldValue.items = <<120, 8>>

\* C18: after a commit of x through the handle of a thumb whose identity is
\* registered at index i, on a mutable slider, the value read at i is x itself,
\* neither rounded to the step nor clamped to a range.
C18_CommitStoresRawValue ==
  [][(last'.op = "setThumbValue" /\ ~disabled /\ ~readonly /\ last'.idx >= 0) =>
       ThumbValueIn(fieldValue', last'.idx) = last'.value]_vars

\* the second of two thumbs committed 1 on a slider of step 5 while its range
\* started at 2: the field holds 1 at index 1
C18_Witness ==
  /\ Len(thumbs) = 2
  /\ last.op = "setThumbValue" /\ last.idx = 1 /\ last.value = 1
  /\ last.effects = Committed
  /\ getSliderStep = 5
  /\ getThumbValue(0) = 2 /\ getThumbValue(1) = 1

\* C19: on a mutable slider every commit through a handle makes exactly two
\* calls, the value write and then one revalidation; every track pointer-down
\* on a mutable, measured slider makes those two calls and then marks the
\* field touched.
C19_RevalidatesThenTouches ==
  [][/\ (last'.op = "setThumbValue" /\ ~disabled /\ ~readonly) =>
          last'.effects = Committed
     /\ (last'.op = "onMousedown" /\ trackRef /\ ~disabled /\ ~readonly) =>
          last'.effects = Committed \o <<"setTouched">> /\ touched']_vars

\* a track pointer-down on a slider of three thumbs wrote into the field
\* sequence, revalidated and marked the field touched
C19_Witness ==
  /\ Len(thumbs) = 3
  /\ fieldValue.isArray
  /\ last.op = "onMousedown"
  /\ last.effects = <<"setValue", "updateValidity", "setTouched">>
  /\ ThumbValueIn(fieldValue, last.idx) = last.value
  /\ touched

\* C20: a track pointer-down on a mutable, measured slider with registered
\* thumbs changes the field only by a write to a thumb whose range contains
\* the target, and leaves the field as it was when no thumb with a value has
\* the target in its range.
C20_NoWriteOutsideRange ==
  [][(/\ last'.op = "onMousedown" /\ trackRef /\ ~disabled /\ ~readonly
      /\ Len(thumbs) >= 1) =>
       /\ fieldValue' # fieldValue => Admits(thumbs[last'.idx + 1], last'.value)
       /\ Admissible(last'.value) = {} => fieldValue' = fieldValue]_vars

\* C21: the value committed by a track pointer-down inside the track
\* rectangle of a mutable, measured slider lies within
\* [absoluteMin, absoluteMax].
C21_ClickValueWithinBounds ==
  (last.op = "onMousedown" /\ last.effects # <<>>) =>
    getSliderRange.min <= last.value /\ last.value <= getSliderRange.max

\* C22: a track pointer-down on a mutable, measured slider whose registered
\* thumbs all have values, within the slider bounds and non-decreasing by
\* index, leaves values that are non-decreasing by index.
C22_ClicksKeepOrder ==
  [][(/\ last'.op = "onMousedown" /\ last'.effects # <<>>
      /\ Len(thumbs) >= 1
      /\ ValuesNonDecreasing /\ ValuesWithinSliderRange) =>
       ValuesNonDecreasing']_vars

\* C23: when a thumb is deregistered from a registry of distinct ids, the
\* handle of every thumb that stays registered reports through getThumbValue
\* the number it reported before.
C23_DeregistrationKeepsReportedValues ==
  [][(last'.op = "unmount" /\ DistinctIds) =>
       \A ctx \in handles :
         (indexOf(thumbs', ctx) >= 0) => (RegGetThumbValue(ctx))' = RegGetThumbValue(ctx)]_vars

\* C24: a setThumbValue through the handle of a thumb whose identity is no
\* longer in the registry leaves the field value as it was.
C24_StaleCommitChangesNothing ==
  [][(last'.op = "setThumbValue" /\ last'.idx = -1) => fieldValue' = fieldValue]_vars

\* C25: for every thumb of the registry, duplicates of an identity included,
\* the position that getThumbRange computes its range for (the position of the
\* thumb object) is the position that its handle's getIndex returns, so the
\* value the handle reports is the value at the thumb's own position.
C25_RangeAndIndexAgree ==
  \A i \in Indices :
    LET ctx == thumbs[i + 1]
    IN  /\ indexOf(thumbs, ctx) = i
        /\ getThumbIndex(ctx) = i
        /\ RegGetThumbValue(ctx) = Nullish(getThumbValue(i), getSliderRange.min)

\* the mapping of a measured horizontal slider is inverted: the left edge of
\* the track maps above the right edge
MappingIsInverted ==
  getValueForPagePosition([x |-> 0, y |-> 0]) > getValueForPagePosition([x |-> 20, y |-> 0])

\* C26: on a measured horizontal slider the position-to-value mapping is
\* inverted exactly when the handle's getInlineDirection returns rtl, whether
\* the direction is configured or comes from the locale.
C26_FlipFollowsInlineDirection ==
  (trackRef /\ props.orientation # "vertical") =>
    (MappingIsInverted <=> getInlineDirection = "rtl")

====
